---- MODULE Spec2Model ----
(***************************************************************************)
(* Model of amper/amper_container.go: a registry (Kernel) of policy        *)
(* templates and accounts, containers that attach templates to accounts,   *)
(* and the policy composer Container.Policy().                             *)
(*                                                                         *)
(* Strings whose order matters (action identifiers) are sequences of byte  *)
(* codes, compared as Go compares strings; all other strings are opaque.   *)
(* A Go pointer that may be nil is a sequence of length 0 (nil) or 1.      *)
(***************************************************************************)
EXTENDS Integers, Sequences, FiniteSets, TLC

\* Largest attachment list a container is grown to.
MaxAtt == 2

Nil == "nil"

----------------------------------------------------------------------------
(* The objects of one run: two registries, three containers, four template *)
(* objects (t1 and t4 carry the same key), three variable mappings.        *)

Kernels == {"k1", "k2"}

Containers == {"c1", "c2", "c3"}

\* Container.amper: the registry a container was built on.
amper == [c \in Containers |-> IF c = "c3" THEN "k2" ELSE "k1"]

Templates == {"t1", "t2", "t3", "t4"}

\* Action identifiers as byte strings.
Star == <<42>>
EC2 == <<101, 99, 50, 58, 42>>
S3 == <<115, 51>>
S3Star == <<115, 51, 58, 42>>

\* PolicyTemplate.Key
Key == [pt \in Templates |->
          CASE pt = "t1" -> "T1" [] pt = "t2" -> "T2" [] pt = "t3" -> "T3" [] pt = "t4" -> "T1"]

\* PolicyTemplate.Vars: the required variable names, in declaration order.
Vars == [pt \in Templates |->
           CASE pt = "t1" -> <<"Bucket">>
             [] pt = "t2" -> <<"Bucket", "Region">>
             [] pt = "t3" -> <<"Region">>
             [] pt = "t4" -> <<>>]

\* PolicyTemplate.Scope: the declared scope identifiers, in declaration order.
Scope == [pt \in Templates |->
            CASE pt = "t1" -> <<S3Star, EC2>>
              [] pt = "t2" -> <<EC2, S3>>
              [] pt = "t3" -> <<>>
              [] pt = "t4" -> <<>>]

\* PolicyTemplate.ServiceRole: the declared role's name, or Nil.
ServiceRole == [pt \in Templates |->
                  CASE pt = "t1" -> Nil [] pt = "t2" -> "role" [] pt = "t3" -> Nil [] pt = "t4" -> "role"]

TemplateKeys == {Key[pt] : pt \in Templates}

AccountNames == {"A", "B", "Z"}

\* The variable mappings handed to AddAttachment: empty, partial, full.
VarMaps == { [v \in {} |-> "x"],
             [v \in {"Bucket"} |-> "x"],
             [v \in {"Bucket", "Region"} |-> "x"] }

\* The one container driven through its whole lifecycle.
Composed == {"c1"}

----------------------------------------------------------------------------
(* Errors, by the message each return builds.                              *)

ErrExists == "already exists"
ErrUnknownState == "is in unknown state"
ErrUnknownTemplate == "unknown policy template"
ErrUnknownAccount == "unknown account"
ErrVarNotSet == "variable is not set"
ErrRender == "renderTemplate failed"
ErrVersion == "Unsupported policy version"
ErrServiceRole == "renderServiceRole failed"
ErrAssumeRole == "renderServiceAssumeRole failed"
ErrCompress == "compress failed"

----------------------------------------------------------------------------
(* Go maps as functions whose domain is the set of keys present.           *)

EmptyMap == << >>

Has(m, k) == k \in DOMAIN m

Put(m, k, v) == [x \in (DOMAIN m) \cup {k} |-> IF x = k THEN v ELSE m[x]]

\* m[k] of a map of slices: the nil slice when k is absent.
Slice(m, k) == IF Has(m, k) THEN m[k] ELSE << >>

----------------------------------------------------------------------------
VARIABLES
  policyTemplates,  \* Kernel.policyTemplates: per registry, key -> template object
  accounts,         \* Kernel.accounts: per registry, the registered account names
  ptAmper,          \* PolicyTemplate.amper: per template object, its registry or Nil
  ptContainer,      \* PolicyTemplate.container: per template object, its container or Nil
  attachments,      \* Container.attachments: per container, the ordered list
  last,             \* the most recent call: its arguments and what it returned
  inflight,         \* per registry, the AddPolicyTemplate that holds its lock
  proc,             \* per goroutine, the call it is in and how far it got
  rw                \* per RWMutex (registry or container), its state

vars == <<policyTemplates, accounts, ptAmper, ptContainer, attachments, last,
          inflight, proc, rw>>

\* The goroutines that call into the containers concurrently.
NumProcs == 3

Procs == 1..NumProcs

\* The mutexes: one per registry, one embedded in each container.
Locks == Kernels \cup Containers

\* A goroutine that is in no call.
NotCalling == [op |-> "none", c |-> "none", phase |-> "idle", i |-> 0]

\* A sync.RWMutex nobody holds or waits for. writer says that a writer has
\* announced itself (it holds the lock, or waits for the readers to leave);
\* readers counts the readers that hold it.
Unlocked == [writer |-> FALSE, readers |-> 0]

\* The record of a call. att and policy are nil (<<>>) or hold one value.
Call(op, c, args, err, detail, att, policy, missing, calls) ==
  [op |-> op, c |-> c, args |-> args, err |-> err, detail |-> detail,
   att |-> att, policy |-> policy, missing |-> missing, calls |-> calls]

NoArgs == [pt |-> Nil, policyTemplateID |-> Nil, accountName |-> Nil, vars |-> << >>]

NoCall == Call("none", Nil, NoArgs, Nil, Nil, << >>, << >>, << >>, << >>)

\* The results of a call that returned are taken before anything else
\* moves. No handler reads last, so this leaves reachable what would be
\* reachable without it.
Idle == last.op = "none"

\* No AddPolicyTemplate holds the registry's lock.
NoRegistration == [c |-> Nil, pt |-> Nil, pc |-> "idle"]

\* The registry's lock is free of writers: whoever takes it, in either
\* mode, waits until the AddPolicyTemplate that holds it has returned.
RegistryFree(k) == inflight[k].pc = "idle"

Init ==
  /\ policyTemplates = [k \in Kernels |-> EmptyMap]
  /\ accounts = [k \in Kernels |-> IF k = "k1" THEN {"A", "B"} ELSE {"A"}]
  /\ ptAmper = [pt \in Templates |-> Nil]
  /\ ptContainer = [pt \in Templates |-> Nil]
  /\ attachments = [c \in Containers |-> << >>]
  /\ last = NoCall
  /\ inflight = [k \in Kernels |-> NoRegistration]
  /\ proc = [p \in Procs |-> NotCalling]
  /\ rw = [l \in Locks |-> Unlocked]

----------------------------------------------------------------------------
(* Container.AddPolicyTemplate                                             *)

\* The mutant: the ownership markers are not looked at.
AddPolicyTemplateErr_NoStateCheck(c, pt) ==
  IF Has(policyTemplates[amper[c]], Key[pt]) THEN ErrExists ELSE Nil

\* The mutant: the key is not looked up, a second registration overwrites.
AddPolicyTemplateErr_NoKeyCheck(c, pt) ==
  IF ptContainer[pt] # Nil \/ ptAmper[pt] # Nil THEN ErrUnknownState ELSE Nil

\* The error AddPolicyTemplate returns: the key first, then the markers.
AddPolicyTemplateErr(c, pt) ==
  IF Has(policyTemplates[amper[c]], Key[pt]) THEN ErrExists
  ELSE IF ptContainer[pt] # Nil \/ ptAmper[pt] # Nil THEN ErrUnknownState
  ELSE Nil

\* AddPolicyTemplate up to its two checks (lines 30-39). The call takes
\* the lock of its own registry only, so calls made through two registries
\* run side by side, and the markers of a template object they share are
\* read here and written below with nothing to order the two calls. A
\* call that passes the checks goes on to lines 41-44, one write at a time.
AddPolicyTemplate(c, pt) ==
  LET err == AddPolicyTemplateErr(c, pt) IN
  /\ Idle
  /\ RegistryFree(amper[c])
  /\ IF err = Nil
     THEN /\ inflight' = [inflight EXCEPT
                            ![amper[c]] = [c |-> c, pt |-> pt, pc |-> "amper"]]
          /\ UNCHANGED last
     ELSE /\ last' = Call("AddPolicyTemplate", c, [NoArgs EXCEPT !.pt = pt], err,
                          Key[pt], << >>, << >>, << >>, << >>)
          /\ UNCHANGED inflight
  /\ UNCHANGED <<policyTemplates, ptAmper, ptContainer, accounts, attachments,
                 proc, rw>>

\* Line 41: pt.amper = c.amper.
StampAmper ==
  \E k \in Kernels :
    /\ Idle
    /\ inflight[k].pc = "amper"
    /\ ptAmper' = [ptAmper EXCEPT ![inflight[k].pt] = k]
    /\ inflight' = [inflight EXCEPT ![k].pc = "container"]
    /\ UNCHANGED <<policyTemplates, ptContainer, accounts, attachments, last,
                   proc, rw>>

\* Line 42: pt.container = c.
StampContainer ==
  \E k \in Kernels :
    /\ Idle
    /\ inflight[k].pc = "container"
    /\ ptContainer' = [ptContainer EXCEPT ![inflight[k].pt] = inflight[k].c]
    /\ inflight' = [inflight EXCEPT ![k].pc = "insert"]
    /\ UNCHANGED <<policyTemplates, ptAmper, accounts, attachments, last,
                   proc, rw>>

\* Lines 44-46: the template goes into the registry's map, the call
\* returns nil and the deferred unlock frees the registry.
InsertTemplate ==
  \E k \in Kernels :
    /\ Idle
    /\ inflight[k].pc = "insert"
    /\ policyTemplates' =
         [policyTemplates EXCEPT ![k] = Put(@, Key[inflight[k].pt], inflight[k].pt)]
    /\ inflight' = [inflight EXCEPT ![k] = NoRegistration]
    /\ last' = Call("AddPolicyTemplate", inflight[k].c,
                    [NoArgs EXCEPT !.pt = inflight[k].pt], Nil,
                    Key[inflight[k].pt], << >>, << >>, << >>, << >>)
    /\ UNCHANGED <<ptAmper, ptContainer, accounts, attachments, proc, rw>>

----------------------------------------------------------------------------
(* Container.AddAttachment                                                 *)

\* The indexes of the required variables that the mapping does not set.
Unset(pt, vs) == {i \in 1..Len(Vars[pt]) : Vars[pt][i] \notin DOMAIN vs}

Least(S) == CHOOSE i \in S : \A j \in S : i <= j

\* The mutant: only the first required variable is looked up.
AddAttachmentErr_FirstVarOnly(c, policyTemplateID, accountName, vs) ==
  LET k == amper[c] IN
  IF ~Has(policyTemplates[k], policyTemplateID)
  THEN [err |-> ErrUnknownTemplate, detail |-> policyTemplateID]
  ELSE IF accountName \notin accounts[k]
  THEN [err |-> ErrUnknownAccount, detail |-> accountName]
  ELSE LET pt == policyTemplates[k][policyTemplateID] IN
       IF 1 \in Unset(pt, vs)
       THEN [err |-> ErrVarNotSet, detail |-> Vars[pt][1]]
       ELSE [err |-> Nil, detail |-> Nil]

\* The error AddAttachment returns and the name it reports: the template,
\* then the account, then the first required variable that is not set.
AddAttachmentErr(c, policyTemplateID, accountName, vs) ==
  LET k == amper[c] IN
  IF ~Has(policyTemplates[k], policyTemplateID)
  THEN [err |-> ErrUnknownTemplate, detail |-> policyTemplateID]
  ELSE IF accountName \notin accounts[k]
  THEN [err |-> ErrUnknownAccount, detail |-> accountName]
  ELSE LET pt == policyTemplates[k][policyTemplateID] IN
       IF Unset(pt, vs) # {}
       THEN [err |-> ErrVarNotSet, detail |-> Vars[pt][Least(Unset(pt, vs))]]
       ELSE [err |-> Nil, detail |-> Nil]

\* The mutant: the attachment is appended before the variables are checked,
\* so a call that fails on a variable has already grown the list.
AttachmentsAfter_AppendEarly(c, policyTemplateID, accountName, vs) ==
  LET k == amper[c] IN
  IF Has(policyTemplates[k], policyTemplateID) /\ accountName \in accounts[k]
  THEN Append(attachments[c],
              [pt |-> policyTemplates[k][policyTemplateID],
               account |-> accountName, vars |-> vs])
  ELSE attachments[c]

\* The container's list when AddAttachment returns.
AttachmentsAfter(c, policyTemplateID, accountName, vs) ==
  IF AddAttachmentErr(c, policyTemplateID, accountName, vs).err = Nil
  THEN Append(attachments[c],
              [pt |-> policyTemplates[amper[c]][policyTemplateID],
               account |-> accountName, vars |-> vs])
  ELSE attachments[c]

AddAttachment(c, policyTemplateID, accountName, vs) ==
  LET r == AddAttachmentErr(c, policyTemplateID, accountName, vs)
      after == AttachmentsAfter(c, policyTemplateID, accountName, vs)
  IN
  /\ Idle
  /\ RegistryFree(amper[c])
  /\ r.err # Nil \/ Len(attachments[c]) < MaxAtt
  /\ attachments' = [attachments EXCEPT ![c] = after]
  /\ last' = Call("AddAttachment", c,
                  [NoArgs EXCEPT !.policyTemplateID = policyTemplateID,
                                 !.accountName = accountName, !.vars = vs],
                  r.err, r.detail,
                  IF r.err = Nil THEN <<after[Len(after)]>> ELSE << >>,
                  << >>, << >>, << >>)
  /\ UNCHANGED <<policyTemplates, accounts, ptAmper, ptContainer, inflight,
                 proc, rw>>

----------------------------------------------------------------------------
(* The policy document model, as far as Policy() builds and reads it.      *)

\* The one supported version of a policy document.
IAMPolicyVersion == "2012-10-17"

\* The versions a rendered document may declare: none, the supported one,
\* an older one.
Versions == {"", IAMPolicyVersion, "2008-10-17"}

IAMPolicyStatement(sid, effect, actions, notActions, resources) ==
  [Sid |-> sid, Effect |-> effect, Actions |-> actions,
   NotActions |-> notActions, Resources |-> resources]

\* origin: the attachment a document was rendered for (none for the
\* documents Policy() builds itself); it stands for the pointer's identity.
IAMPolicyDoc(version, statements, origin) ==
  [Version |-> version, Statements |-> statements, origin |-> origin]

\* &IAMPolicyDoc{}
EmptyDoc == IAMPolicyDoc("", << >>, << >>)

\* The document a template renders for attachment a, declaring version v.
RenderedDoc(a, v) ==
  IAMPolicyDoc(v, <<IAMPolicyStatement(Key[a.pt], "Allow", << >>, << >>, << >>)>>, <<a>>)

\* What renderTemplate may return: a document, no document, or a failure.
RenderOutcomes ==
  {[kind |-> "doc", Version |-> v] : v \in Versions}
    \cup {[kind |-> "absent", Version |-> ""], [kind |-> "fail", Version |-> ""]}

\* What the two service-role renders may return, in call order.
ServiceRoleOutcomes == {<<"ok", "ok">>, <<"fail", "none">>, <<"ok", "fail">>}

\* The pair renderServiceRole / renderServiceAssumeRole produce for a.
ServiceRolePolicy(a) ==
  [Policy |-> <<"role policy", a>>, AssumeRolePolicy |-> <<"assume role policy", a>>]

AllowAll == IAMPolicyStatement("AllowAll", "Allow", <<Star>>, << >>, <<Star>>)

DenyAll == IAMPolicyStatement("DenyAll", "Deny", <<Star>>, << >>, <<Star>>)

----------------------------------------------------------------------------
(* sort.Sort(sort.StringSlice(scopes))                                     *)

\* Go's s < t on strings: byte-wise, a proper prefix being smaller.
StrLess(s, t) ==
  \/ \E i \in 1..Len(s) :
       /\ i <= Len(t)
       /\ s[i] < t[i]
       /\ \A j \in 1..(i - 1) : s[j] = t[j]
  \/ /\ Len(s) < Len(t)
     /\ \A j \in 1..Len(s) : s[j] = t[j]

\* x put into the ascending sequence sorted, before the first larger element.
RECURSIVE Insert(_, _)
Insert(x, sorted) ==
  IF sorted = << >> THEN <<x>>
  ELSE IF StrLess(x, Head(sorted)) THEN <<x>> \o sorted
  ELSE <<Head(sorted)>> \o Insert(x, Tail(sorted))

\* The mutant: the slice is left in the order the map iteration gave it.
SortStrings_NoSort(scopes) == scopes

RECURSIVE SortStrings(_)
SortStrings(scopes) ==
  IF scopes = << >> THEN << >>
  ELSE Insert(Head(scopes), SortStrings(Tail(scopes)))

\* The orders in which a range over a map with key set S may visit its keys.
RECURSIVE KeyOrders(_)
KeyOrders(S) ==
  IF S = {} THEN {<< >>}
  ELSE UNION {{<<x>> \o rest : rest \in KeyOrders(S \ {x})} : x \in S}

Range(seq) == {seq[i] : i \in 1..Len(seq)}

----------------------------------------------------------------------------
(* Container.Policy(): the pass over the attachments                       *)

\* The four maps and the missing list before the first attachment; calls
\* logs the external calls made so far with what each returned.
LoopInit ==
  [accountPolicies |-> EmptyMap, serviceRolePolicies |-> EmptyMap,
   scopeMap |-> EmptyMap, missing |-> << >>, calls |-> << >>]

Called(fn, i, out) == [fn |-> fn, idx |-> i, out |-> out]

RenderOut(o) == IF o.kind = "doc" THEN <<"doc", o.Version>> ELSE <<o.kind, "">>

\* The mutant: an absent render falls through to the scope union.
AbsentScope_Union(po, a) == po \cup Range(Scope[a.pt])

\* The account's scope set after an attachment rendered absent.
AbsentScope(po, a) == po

\* The mutant: the entry goes to the front of the account's list.
AppendDoc_Prepend(docs, d) == <<d>> \o docs

\* The account's list with one more entry, at its end.
AppendDoc(docs, d) == Append(docs, d)

\* The mutant: the template's scope replaces what the account had.
ScopeUnion_Overwrite(po, a) == Range(Scope[a.pt])

\* The account's scope set once the scope of a's template is marked in it.
ScopeUnion(po, a) == po \cup Range(Scope[a.pt])

\* The mutant: a role name already in the bucket keeps its first pair.
StoreServiceRole_FirstWins(bucket, a) ==
  IF Has(bucket, ServiceRole[a.pt]) THEN bucket
  ELSE Put(bucket, ServiceRole[a.pt], ServiceRolePolicy(a))

\* The account's service-role bucket once a's pair is stored under the
\* role name of a's template.
StoreServiceRole(bucket, a) ==
  Put(bucket, ServiceRole[a.pt], ServiceRolePolicy(a))

\* The mutant: a document that declares no version is refused as well.
VersionUnsupported_EmptyToo(version) == version # IAMPolicyVersion

\* Whether a rendered document's version ends Policy(): it is set and is
\* not the supported one.
VersionUnsupported(version) == version # "" /\ version # IAMPolicyVersion

\* One iteration of the loop, for attachment a at index i, when
\* renderTemplate returns o and the service-role renders return sr.
\* Gives the error that ends Policy() (or Nil) and the loop's state.
Iteration(st, i, a, o, sr) ==
  LET acct == a.account
      st1 == [st EXCEPT
                !.serviceRolePolicies =
                   IF Has(@, acct) THEN @ ELSE Put(@, acct, EmptyMap),
                !.calls = Append(@, Called("renderTemplate", i, RenderOut(o)))]
      st2 == [st1 EXCEPT
                !.scopeMap = IF Has(@, acct) THEN @ ELSE Put(@, acct, {})]
      st3 == [st2 EXCEPT
                !.accountPolicies =
                   Put(@, acct, AppendDoc(Slice(@, acct), RenderedDoc(a, o.Version))),
                !.scopeMap = Put(@, acct, ScopeUnion(@[acct], a))]
      st4 == [st3 EXCEPT
                !.calls = Append(@, Called("renderServiceRole", i, <<sr[1], "">>))]
      st5 == [st4 EXCEPT
                !.calls = Append(@, Called("renderServiceAssumeRole", i, <<sr[2], "">>))]
      st6 == [st5 EXCEPT
                !.serviceRolePolicies =
                   Put(@, acct, StoreServiceRole(@[acct], a))]
  IN
  IF o.kind = "fail" THEN [err |-> ErrRender, st |-> st1]
  ELSE IF o.kind = "absent"
  THEN [err |-> Nil,
        st |-> [st2 EXCEPT
                  !.accountPolicies = Put(@, acct, AppendDoc(Slice(@, acct), EmptyDoc)),
                  !.scopeMap = Put(@, acct, AbsentScope(@[acct], a)),
                  !.missing = Append(@, a)]]
  ELSE IF VersionUnsupported(o.Version)
  THEN [err |-> ErrVersion, st |-> st2]
  ELSE IF ServiceRole[a.pt] = Nil THEN [err |-> Nil, st |-> st3]
  ELSE IF sr[1] # "ok" THEN [err |-> ErrServiceRole, st |-> st4]
  ELSE IF sr[2] # "ok" THEN [err |-> ErrAssumeRole, st |-> st5]
  ELSE [err |-> Nil, st |-> st6]

\* The service-role outcomes that attachment a can meet under o: the two
\* renders are called only for a versioned-right document of a template
\* that declares a service role.
ServiceRoleCalls(a, o) ==
  IF /\ o.kind = "doc"
     /\ ~VersionUnsupported(o.Version)
     /\ ServiceRole[a.pt] # Nil
  THEN ServiceRoleOutcomes
  ELSE {<<"none", "none">>}

\* The mutant: after a failure the pass goes on over the later attachments
\* and returns the first failure at its end.
RECURSIVE Loop_KeepGoing(_, _, _)
Loop_KeepGoing(atts, i, st) ==
  IF i > Len(atts) THEN {[err |-> Nil, st |-> st]}
  ELSE UNION {
         UNION {
           LET r == Iteration(st, i, atts[i], o, sr) IN
           IF r.err # Nil
           THEN {[err |-> r.err, st |-> x.st]
                   : x \in Loop_KeepGoing(atts, i + 1, r.st)}
           ELSE Loop_KeepGoing(atts, i + 1, r.st)
           : sr \in ServiceRoleCalls(atts[i], o)}
         : o \in RenderOutcomes}

\* Every way the loop over atts can end from index i on, the renders being
\* free to return anything: the first error stops the pass.
RECURSIVE Loop(_, _, _)
Loop(atts, i, st) ==
  IF i > Len(atts) THEN {[err |-> Nil, st |-> st]}
  ELSE UNION {
         UNION {
           LET r == Iteration(st, i, atts[i], o, sr) IN
           IF r.err # Nil THEN {r} ELSE Loop(atts, i + 1, r.st)
           : sr \in ServiceRoleCalls(atts[i], o)}
         : o \in RenderOutcomes}

----------------------------------------------------------------------------
(* Container.Policy(): the synthesized statements, per account             *)

\* The statement denyUnknown for scope set po, scopes being the keys of po
\* in the order the range over po produced them.
DenyUnknown(po, scopes) ==
  IF Cardinality(po) = 0 THEN DenyAll
  ELSE IAMPolicyStatement("DenyUnknownServices", "Deny", << >>,
                          SortStrings(scopes), <<Star>>)

SynthDoc(stmt) == IAMPolicyDoc("", <<stmt>>, << >>)

\* The mutant: the allow-all document is appended for every account.
AllowAllAppended_Always(po) == TRUE

\* Whether the allow-all document is appended for scope set po.
AllowAllAppended(po) == Cardinality(po) > 0

\* The mutant: the role list is taken after the allow-all document went in.
RolePolicies_AfterAllowAll(withDeny, withAllow) == withAllow

\* The list stored as accountRolePolicies[account]: the account's list as
\* it stands once the deny document is appended.
RolePolicies(withDeny, withAllow) == withDeny

\* The mutant: the allow-all document goes in before the deny document.
WithDeny_AllowFirst(docs, po, scopes) ==
  IF Cardinality(po) > 0
  THEN Append(docs, SynthDoc(AllowAll))
  ELSE Append(docs, SynthDoc(DenyUnknown(po, scopes)))

\* The account's list with the deny document appended.
WithDeny(docs, po, scopes) == Append(docs, SynthDoc(DenyUnknown(po, scopes)))

\* One iteration of the loop over scopeMap: the two lists of the account.
AccountFinal(docs, po, scopes) ==
  LET withDeny == WithDeny(docs, po, scopes)
      withAllow == IF AllowAllAppended(po)
                   THEN Append(withDeny, SynthDoc(AllowAll))
                   ELSE withDeny
  IN [policies |-> withAllow, rolePolicies |-> RolePolicies(withDeny, withAllow)]

\* What the iteration for one account can produce, over the orders in
\* which the range over its scope set can run.
AccountFinals(st, acct) ==
  {AccountFinal(Slice(st.accountPolicies, acct), st.scopeMap[acct], scopes)
     : scopes \in KeyOrders(st.scopeMap[acct])}

\* The aggregates p the loop over scopeMap can build from loop state st.
Aggregates(c, st) ==
  LET touched == DOMAIN st.scopeMap
      finals == UNION {AccountFinals(st, acct) : acct \in touched}
      picks == {f \in [touched -> finals] :
                  \A acct \in touched : f[acct] \in AccountFinals(st, acct)}
  IN {[amper |-> amper[c],
       AccountPolicies |->
         [acct \in (DOMAIN st.accountPolicies) \cup touched |->
            IF acct \in touched THEN f[acct].policies ELSE st.accountPolicies[acct]],
       AccountRolePolicies |-> [acct \in touched |-> f[acct].rolePolicies],
       ServiceRolePolicies |-> st.serviceRolePolicies]
      : f \in picks}

----------------------------------------------------------------------------
(* Container.Policy(): what it returns                                     *)

Result(err, policy, missing, calls) ==
  [err |-> err, policy |-> policy, missing |-> missing, calls |-> calls]

\* The mutant: a failed compress returns the aggregate it was given.
CompressFailed_WithPolicy(p, missing, calls) ==
  Result(ErrCompress, <<p>>, missing, calls)

\* The bare return after a failed compress: the unnamed first result is
\* nil, err is the failure, missing is the list as it was built.
CompressFailed(p, missing, calls) ==
  Result(ErrCompress, << >>, missing, calls)

\* What compress may return: success or a failure.
CompressOutcomes == {"ok", "fail"}

\* The aggregate after a successful compress: compress is taken to validate
\* the bundle and to leave the three maps as Policy() built them.
Compressed(p) == p

\* Every result Policy() can return on container c: the renders and
\* compress are free to return anything, a range over a map to run in any
\* order.
PolicyResults(c) ==
  UNION {
    IF r.err # Nil THEN {Result(r.err, << >>, << >>, r.st.calls)}
    ELSE UNION {
           UNION {
             LET calls == Append(r.st.calls, Called("compress", 0, <<out, "">>))
             IN IF out = "ok"
                THEN {Result(Nil, <<Compressed(p)>>, r.st.missing, calls)}
                ELSE {CompressFailed(p, r.st.missing, calls)}
             : out \in CompressOutcomes}
           : p \in Aggregates(c, r.st)}
    : r \in Loop(attachments[c], 1, LoopInit)}

Policy(c) ==
  /\ Idle
  /\ RegistryFree(amper[c])
  /\ \E r \in PolicyResults(c) :
    /\ last' = Call("Policy", c, NoArgs, r.err, Nil, << >>, r.policy, r.missing, r.calls)
    /\ UNCHANGED <<policyTemplates, accounts, ptAmper, ptContainer, attachments,
                   inflight, proc, rw>>

----------------------------------------------------------------------------
Register == \E c \in Composed, pt \in Templates : AddPolicyTemplate(c, pt)

Attach ==
  \E c \in Composed, id \in TemplateKeys, a \in AccountNames, vs \in VarMaps :
    AddAttachment(c, id, a, vs)

Compose == \E c \in Composed : Policy(c)

\* The caller takes the results of the call that returned.
Return ==
  /\ ~Idle
  /\ last' = NoCall
  /\ UNCHANGED <<policyTemplates, accounts, ptAmper, ptContainer, attachments,
                 inflight, proc, rw>>

\* One container from construction on: registration, attachment, composition.
Next ==
  \/ Register \/ StampAmper \/ StampContainer \/ InsertTemplate
  \/ Attach \/ Compose \/ Return

Spec == Init /\ [][Next]_vars

\* Registration alone, by every container of both registries: calls on one
\* registry come one after another, calls on the two registries overlap.
RegisterAny == \E c \in Containers, pt \in Templates : AddPolicyTemplate(c, pt)

NextRegistry ==
  RegisterAny \/ StampAmper \/ StampContainer \/ InsertTemplate \/ Return

SpecRegistry == Init /\ [][NextRegistry]_vars

----------------------------------------------------------------------------
(* The locking of the three operations, goroutine by goroutine.           *)
(* Each operation takes its locks on entry and defers their release; the  *)
(* deferred calls run at return, the last deferred first. What the        *)
(* operation does between the two is modelled above; here only the locks  *)
(* move.                                                                  *)

Operations == {"AddPolicyTemplate", "AddAttachment", "Policy"}

\* One Lock()/RLock() call: the mutex, the mode ("W" for Lock, "R" for
\* RLock), and whether the matching unlock is deferred.
Acquire(lock, mode) == [lock |-> lock, mode |-> mode, deferred |-> TRUE]

\* The mutant: AddAttachment takes its container in shared mode.
LockPlan_AttachShared(op, c) ==
  CASE op = "AddPolicyTemplate" -> <<Acquire(amper[c], "W")>>
    [] op = "AddAttachment" -> <<Acquire(amper[c], "R"), Acquire(c, "R")>>
    [] op = "Policy" -> <<Acquire(amper[c], "R"), Acquire(c, "R")>>

\* The mutant: AddAttachment takes its container before the registry.
LockPlan_ContainerFirst(op, c) ==
  CASE op = "AddPolicyTemplate" -> <<Acquire(amper[c], "W")>>
    [] op = "AddAttachment" -> <<Acquire(c, "W"), Acquire(amper[c], "R")>>
    [] op = "Policy" -> <<Acquire(amper[c], "R"), Acquire(c, "R")>>

\* The mutant: AddAttachment does not defer the unlock of its container.
LockPlan_NoContainerUnlock(op, c) ==
  CASE op = "AddPolicyTemplate" -> <<Acquire(amper[c], "W")>>
    [] op = "AddAttachment" ->
         <<Acquire(amper[c], "R"), [Acquire(c, "W") EXCEPT !.deferred = FALSE]>>
    [] op = "Policy" -> <<Acquire(amper[c], "R"), Acquire(c, "R")>>

\* The mutant: AddAttachment takes the registry in exclusive mode.
LockPlan_RegistryExclusive(op, c) ==
  CASE op = "AddPolicyTemplate" -> <<Acquire(amper[c], "W")>>
    [] op = "AddAttachment" -> <<Acquire(amper[c], "W"), Acquire(c, "W")>>
    [] op = "Policy" -> <<Acquire(amper[c], "R"), Acquire(c, "R")>>

\* The locks operation op takes on container c, in the order it takes them.
LockPlan(op, c) ==
  CASE op = "AddPolicyTemplate" -> <<Acquire(amper[c], "W")>>
    [] op = "AddAttachment" -> <<Acquire(amper[c], "R"), Acquire(c, "W")>>
    [] op = "Policy" -> <<Acquire(amper[c], "R"), Acquire(c, "R")>>

\* The plan of the call goroutine p is in, and the entry p stands at.
PlanOf(p) == LockPlan(proc[p].op, proc[p].c)

EntryOf(p) == PlanOf(p)[proc[p].i]

\* p stands at entry i of its plan in one of the phases given.
At(p, phases) == proc[p].phase \in phases /\ proc[p].i >= 1

\* Goroutine p once the lock call it is in has returned: at the next lock
\* call, or past the last one, in the body with the deferred calls ahead.
Acquired(p) ==
  IF proc[p].i < Len(PlanOf(p))
  THEN [proc[p] EXCEPT !.phase = "acquire", !.i = @ + 1]
  ELSE [proc[p] EXCEPT !.phase = "release"]

\* Goroutine p once the deferred call it stands at has run.
Released(p) ==
  IF proc[p].i > 1 THEN [proc[p] EXCEPT !.i = @ - 1] ELSE NotCalling

\* The readers parked on mutex l: they called RLock() after a writer had
\* announced itself, and sleep until that writer unlocks.
Parked(l) == {q \in Procs : At(q, {"parked"}) /\ EntryOf(q).lock = l}

Data == <<policyTemplates, accounts, ptAmper, ptContainer, attachments, last,
          inflight>>

\* A goroutine calls one of the operations on one of the containers.
Start(p) ==
  /\ proc[p].phase = "idle"
  /\ \E op \in Operations, c \in Containers :
       proc' = [proc EXCEPT ![p] = [op |-> op, c |-> c, phase |-> "acquire", i |-> 1]]
  /\ UNCHANGED <<rw, Data>>

\* RWMutex.RLock(): the reader holds the mutex at once unless a writer has
\* announced itself; then it parks.
RLock(p) ==
  /\ At(p, {"acquire"})
  /\ EntryOf(p).mode = "R"
  /\ LET l == EntryOf(p).lock IN
     IF rw[l].writer
     THEN /\ proc' = [proc EXCEPT ![p].phase = "parked"]
          /\ UNCHANGED rw
     ELSE /\ proc' = [proc EXCEPT ![p] = Acquired(p)]
          /\ rw' = [rw EXCEPT ![l].readers = @ + 1]
  /\ UNCHANGED Data

\* RWMutex.Lock(), first half: once no other writer has the mutex, the
\* writer announces itself, which turns later readers away.
Lock(p) ==
  /\ At(p, {"acquire"})
  /\ EntryOf(p).mode = "W"
  /\ LET l == EntryOf(p).lock IN
     /\ ~rw[l].writer
     /\ rw' = [rw EXCEPT ![l].writer = TRUE]
     /\ proc' = [proc EXCEPT ![p].phase = "drain"]
  /\ UNCHANGED Data

\* RWMutex.Lock(), second half: the writer holds the mutex once the
\* readers that held it have all left.
Drained(p) ==
  /\ At(p, {"drain"})
  /\ rw[EntryOf(p).lock].readers = 0
  /\ proc' = [proc EXCEPT ![p] = Acquired(p)]
  /\ UNCHANGED <<rw, Data>>

\* The next deferred call of p runs: RUnlock() takes the reader out;
\* Unlock() withdraws the writer and lets every parked reader in. After
\* the last of them the operation has returned.
Unlock(p) ==
  /\ At(p, {"release"})
  /\ LET e == EntryOf(p)
         l == e.lock
     IN
     IF ~e.deferred
     THEN /\ proc' = [proc EXCEPT ![p] = Released(p)]
          /\ UNCHANGED rw
     ELSE IF e.mode = "R"
     THEN /\ proc' = [proc EXCEPT ![p] = Released(p)]
          /\ rw' = [rw EXCEPT ![l].readers = @ - 1]
     ELSE /\ proc' = [q \in Procs |->
                        IF q = p THEN Released(p)
                        ELSE IF q \in Parked(l) THEN Acquired(q)
                        ELSE proc[q]]
          /\ rw' = [rw EXCEPT ![l] = [writer |-> FALSE,
                                      readers |-> @.readers + Cardinality(Parked(l))]]
  /\ UNCHANGED Data

\* What goroutine p does once it is in a call.
Step(p) == RLock(p) \/ Lock(p) \/ Drained(p) \/ Unlock(p)

Enter == \E p \in Procs : Start(p)

AcquireShared == \E p \in Procs : RLock(p)

AnnounceWriter == \E p \in Procs : Lock(p)

AcquireExclusive == \E p \in Procs : Drained(p)

Release == \E p \in Procs : Unlock(p)

NextLocks == Enter \/ AcquireShared \/ AnnounceWriter \/ AcquireExclusive \/ Release

\* Any mix of the three operations, over every container, by NumProcs
\* goroutines.
SpecLocks == Init /\ [][NextLocks]_vars

\* The same when the scheduler lets every goroutine run and the mutexes
\* are fair: a goroutine whose next step is possible again and again
\* takes it.
SpecLocksFair == SpecLocks /\ \A p \in Procs : SF_vars(Step(p))

----------------------------------------------------------------------------
(* Reading a returned call                                                 *)

PolicyReturned == last.op = "Policy"

PolicyOK == PolicyReturned /\ last.err = Nil

PolicyFailed == PolicyReturned /\ last.err # Nil

\* The aggregate a successful Policy() returned, and the list it ran over.
Returned == last.policy[1]

Atts == attachments[last.c]

AttsOf(acct) == {i \in 1..Len(Atts) : Atts[i].account = acct}

\* What renderTemplate returned for attachment i: "doc", "absent", "fail".
RenderKind(i) ==
  LET e == CHOOSE e \in Range(last.calls) : e.fn = "renderTemplate" /\ e.idx = i
  IN e.out[1]

HasStatement(d, effect, actions, resources) ==
  \E j \in 1..Len(d.Statements) :
    /\ d.Statements[j].Effect = effect
    /\ d.Statements[j].Actions = actions
    /\ d.Statements[j].Resources = resources

IsAllowEverything(d) ==
  Len(d.Statements) = 1 /\ HasStatement(d, "Allow", <<Star>>, <<Star>>)

IsDenyEverything(d) ==
  Len(d.Statements) = 1 /\ HasStatement(d, "Deny", <<Star>>, <<Star>>)

IsDenyUnlessInScope(d) ==
  /\ Len(d.Statements) = 1
  /\ HasStatement(d, "Deny", << >>, <<Star>>)
  /\ d.Statements[1].NotActions # << >>

AccountPoliciesOf(acct) == Slice(Returned.AccountPolicies, acct)

AccountRolePoliciesOf(acct) == Slice(Returned.AccountRolePolicies, acct)

\* The account's two lists end as C1 says.
EndsDenyThenAllow(acct) ==
  LET ap == AccountPoliciesOf(acct)
      arp == AccountRolePoliciesOf(acct)
  IN /\ Len(ap) >= 2
     /\ IsDenyUnlessInScope(ap[Len(ap) - 1])
     /\ IsAllowEverything(ap[Len(ap)])
     /\ Len(arp) >= 1
     /\ IsDenyUnlessInScope(arp[Len(arp)])
     /\ Len(arp) = Len(ap) - 1

----------------------------------------------------------------------------
(* C1 *)

\* C1 as stated: after a successful Policy(), every account with an
\* attachment whose template declares a non-empty scope has Account
\* Policies ending [deny-unless-in-scope, allow-everything] and Account Role
\* Policies ending [deny-unless-in-scope], one entry shorter.
C1_Original ==
  PolicyOK =>
    \A acct \in AccountNames :
      (\E i \in AttsOf(acct) : Scope[Atts[i].pt] # << >>) => EndsDenyThenAllow(acct)

\* C1 amended: the same, for every account with an attachment whose
\* template declares a non-empty scope and whose render produced a document.
C1_Amended ==
  PolicyOK =>
    \A acct \in AccountNames :
      (\E i \in AttsOf(acct) : Scope[Atts[i].pt] # << >> /\ RenderKind(i) = "doc")
        => EndsDenyThenAllow(acct)

\* A successful Policy() over an account with a scoped attachment that
\* rendered a document and another attachment that rendered absent.
C1_Witness ==
  /\ PolicyOK
  /\ \E acct \in AccountNames :
       /\ \E i \in AttsOf(acct) : Scope[Atts[i].pt] # << >> /\ RenderKind(i) = "doc"
       /\ \E i \in AttsOf(acct) : RenderKind(i) = "absent"

----------------------------------------------------------------------------
(* C2 *)

EndsDenyEverything(acct) ==
  LET ap == AccountPoliciesOf(acct)
  IN /\ Len(ap) >= 1
     /\ IsDenyEverything(ap[Len(ap)])
     /\ \A j \in 1..Len(ap) : ~HasStatement(ap[j], "Allow", <<Star>>, <<Star>>)

\* C2 as stated: after a successful Policy(), every account of the registry
\* with no attachment of non-empty scope, attached or not, has Account
\* Policies ending with deny-everything and holding no allow-everything.
C2_Original ==
  PolicyOK =>
    \A acct \in accounts[amper[last.c]] :
      (\A i \in AttsOf(acct) : Scope[Atts[i].pt] = << >>) => EndsDenyEverything(acct)

\* C2 amended: the same, for every account that has at least one attachment
\* in the container and none of non-empty scope.
C2_Amended ==
  PolicyOK =>
    \A acct \in accounts[amper[last.c]] :
      (AttsOf(acct) # {} /\ \A i \in AttsOf(acct) : Scope[Atts[i].pt] = << >>)
        => EndsDenyEverything(acct)

\* A successful Policy() over an account whose one attachment rendered a
\* document of a template with empty scope.
C2_Witness ==
  /\ PolicyOK
  /\ \E acct \in accounts[amper[last.c]] :
       /\ AttsOf(acct) # {}
       /\ \A i \in AttsOf(acct) : Scope[Atts[i].pt] = << >> /\ RenderKind(i) = "doc"

----------------------------------------------------------------------------
(* C3 *)

IsPrefix(s, t) == Len(s) <= Len(t) /\ SubSeq(t, 1, Len(s)) = s

\* C3 as stated: in every returned aggregate, for every account in it, the
\* Account Role Policies list is a strict prefix of the Account Policies
\* list, the one document more being the allow-everything document.
C3_Original ==
  PolicyOK =>
    \A acct \in DOMAIN Returned.AccountPolicies :
      LET ap == AccountPoliciesOf(acct)
          arp == AccountRolePoliciesOf(acct)
      IN /\ IsPrefix(arp, ap)
         /\ Len(ap) = Len(arp) + 1
         /\ IsAllowEverything(ap[Len(ap)])

\* C3 amended: the Account Role Policies list is a prefix of the Account
\* Policies list and ends with the deny document; when that is
\* deny-unless-in-scope the Account Policies list has exactly the
\* allow-everything document more, when it is deny-everything the two lists
\* are equal.
C3_Amended ==
  PolicyOK =>
    \A acct \in DOMAIN Returned.AccountPolicies :
      LET ap == AccountPoliciesOf(acct)
          arp == AccountRolePoliciesOf(acct)
      IN /\ IsPrefix(arp, ap)
         /\ Len(arp) >= 1
         /\ IF IsDenyUnlessInScope(arp[Len(arp)])
            THEN Len(ap) = Len(arp) + 1 /\ IsAllowEverything(ap[Len(ap)])
            ELSE IsDenyEverything(arp[Len(arp)]) /\ ap = arp

\* A successful Policy() whose aggregate holds an account of either kind.
C3_Witness ==
  /\ PolicyOK
  /\ \E a1, a2 \in DOMAIN Returned.AccountPolicies :
       /\ IsAllowEverything(AccountPoliciesOf(a1)[Len(AccountPoliciesOf(a1))])
       /\ IsDenyEverything(AccountPoliciesOf(a2)[Len(AccountPoliciesOf(a2))])

----------------------------------------------------------------------------
(* C4 *)

\* C4: a step in which AddAttachment fails returns no attachment and leaves
\* every container's attachment list, so also its length, as it was.
C4_AtomicOnFailure ==
  [][(last'.op = "AddAttachment" /\ last'.err # Nil)
       => /\ last'.err \in {ErrUnknownTemplate, ErrUnknownAccount, ErrVarNotSet}
          /\ last'.att = << >>
          /\ attachments' = attachments
          /\ Len(attachments'[last'.c]) = Len(attachments[last'.c])]_vars

\* AddAttachment failed on a variable that is not set, on a container that
\* already holds an attachment.
C4_Witness ==
  /\ last.op = "AddAttachment"
  /\ last.err = ErrVarNotSet
  /\ Len(attachments[last.c]) >= 1

----------------------------------------------------------------------------
(* C5 *)

\* The success condition of C5, read in the state the call starts in.
Attachable(c, id, acct, vs) ==
  /\ Has(policyTemplates[amper[c]], id)
  /\ acct \in accounts[amper[c]]
  /\ \A v \in Range(Vars[policyTemplates[amper[c]][id]]) : v \in DOMAIN vs

\* C5: AddAttachment succeeds exactly when the key is registered, the
\* account is registered and every required variable is a key of the
\* mapping; it then appends exactly one attachment, of that template,
\* account and mapping, after the unchanged earlier entries, and returns it.
C5_SucceedsExactlyWhen ==
  [][last'.op = "AddAttachment"
       => LET c == last'.c
              id == last'.args.policyTemplateID
              acct == last'.args.accountName
              vs == last'.args.vars
          IN /\ (last'.err = Nil) <=> Attachable(c, id, acct, vs)
             /\ last'.err = Nil =>
                  LET a == [pt |-> policyTemplates[amper[c]][id],
                            account |-> acct, vars |-> vs]
                  IN /\ attachments'[c] = Append(attachments[c], a)
                     /\ Len(attachments'[c]) = Len(attachments[c]) + 1
                     /\ SubSeq(attachments'[c], 1, Len(attachments[c])) = attachments[c]
                     /\ last'.att = <<a>>
                     /\ \A d \in Containers \ {c} : attachments'[d] = attachments[d]]_vars

\* AddAttachment succeeded with a mapping that sets a variable the template
\* does not require, on a container that already holds an attachment.
C5_Witness ==
  /\ last.op = "AddAttachment"
  /\ last.err = Nil
  /\ Len(attachments[last.c]) >= 2
  /\ \E v \in DOMAIN last.args.vars : v \notin Range(Vars[last.att[1].pt])

----------------------------------------------------------------------------
(* C6 *)

\* C6: a step in which AddPolicyTemplate is given a template whose key the
\* registry already holds fails with the duplicate-key error and leaves the
\* registry's mapping and the ownership markers as they were; no step grows
\* a registry by more than one key.
C6_DuplicateKeyFails ==
  [][/\ (last'.op = "AddPolicyTemplate"
           /\ Has(policyTemplates[amper[last'.c]], Key[last'.args.pt]))
          => /\ last'.err = ErrExists
             /\ policyTemplates' = policyTemplates
             /\ ptAmper' = ptAmper
             /\ ptContainer' = ptContainer
     /\ \A k \in Kernels :
          Cardinality(DOMAIN policyTemplates'[k])
            <= Cardinality(DOMAIN policyTemplates[k]) + 1]_vars

\* AddPolicyTemplate refused a template object that was never registered,
\* because another object holds its key in the registry.
C6_Witness ==
  /\ last.op = "AddPolicyTemplate"
  /\ last.err = ErrExists
  /\ ptAmper[last.args.pt] = Nil
  /\ policyTemplates[amper[last.c]][Key[last.args.pt]] # last.args.pt

----------------------------------------------------------------------------
(* C7 *)

\* The registries that hold template object pt.
RegistriesOf(pt) ==
  {k \in Kernels : Has(policyTemplates[k], Key[pt]) /\ policyTemplates[k][Key[pt]] = pt}

Marked(pt) == ptAmper[pt] # Nil \/ ptContainer[pt] # Nil

\* Every registered template is held by one registry, which its markers
\* name together with one container of that registry.
BoundOnce ==
  \A pt \in Templates :
    /\ Cardinality(RegistriesOf(pt)) <= 1
    /\ RegistriesOf(pt) # {} =>
         /\ RegistriesOf(pt) = {ptAmper[pt]}
         /\ ptContainer[pt] \in Containers
         /\ amper[ptContainer[pt]] = ptAmper[pt]

\* The step is an AddPolicyTemplate passing its checks on registry k.
Accepted(k) == inflight[k].pc = "idle" /\ inflight'[k].pc # "idle"

\* The step is an AddPolicyTemplate returning an error.
Refused == last' # last /\ last'.op = "AddPolicyTemplate" /\ last'.err # Nil

\* C7: (a) every registered template is bound to exactly one registry and
\* one container; (b) a marker, once set, never changes; (c) an
\* AddPolicyTemplate on a template that carries a marker is not accepted,
\* and one that is refused changes neither the registries nor the markers.
C7_BoundExactlyOnce ==
  [][/\ BoundOnce'
     /\ \A pt \in Templates :
          /\ ptAmper[pt] # Nil => ptAmper'[pt] = ptAmper[pt]
          /\ ptContainer[pt] # Nil => ptContainer'[pt] = ptContainer[pt]
     /\ \A k \in Kernels : Accepted(k) => ~Marked(inflight'[k].pt)
     /\ Refused => /\ policyTemplates' = policyTemplates
                   /\ ptAmper' = ptAmper
                   /\ ptContainer' = ptContainer]_vars

\* A template object is held by both registries at once.
InBothRegistries == \E pt \in Templates : Cardinality(RegistriesOf(pt)) = 2

\* AddPolicyTemplate refused, as in unknown state, a template bound to
\* another registry whose key the called registry does not hold.
C7_Witness ==
  /\ last.op = "AddPolicyTemplate"
  /\ last.err = ErrUnknownState
  /\ ptAmper[last.args.pt] # amper[last.c]
  /\ RegistriesOf(last.args.pt) = {ptAmper[last.args.pt]}

----------------------------------------------------------------------------
(* C8 *)

\* The failure an external call's logged outcome stands for, or Nil.
FailureOf(e) ==
  CASE e.fn = "renderTemplate" /\ e.out[1] = "fail" -> ErrRender
    [] e.fn = "renderTemplate" /\ e.out[1] = "doc"
         /\ e.out[2] \notin {"", IAMPolicyVersion} -> ErrVersion
    [] e.fn = "renderServiceRole" /\ e.out[1] = "fail" -> ErrServiceRole
    [] e.fn = "renderServiceAssumeRole" /\ e.out[1] = "fail" -> ErrAssumeRole
    [] e.fn = "compress" /\ e.out[1] = "fail" -> ErrCompress
    [] OTHER -> Nil

\* C8: a Policy() that fails returns the failure of the call that failed
\* and a nil aggregate.
C8_NoAggregateOnFailure ==
  PolicyFailed =>
    /\ last.policy = << >>
    /\ last.calls # << >>
    /\ last.err = FailureOf(last.calls[Len(last.calls)])

\* Policy() failed in compress, after the aggregate was built from two
\* attachments.
C8_Witness ==
  /\ PolicyFailed
  /\ last.err = ErrCompress
  /\ Len(Atts) >= 2

----------------------------------------------------------------------------
(* C9 *)

\* C9 as stated: every failing Policy() returns an empty missing list; a
\* non-empty missing list comes only with a successful result.
C9_Claim == PolicyReturned => (last.missing # << >> => last.err = Nil)

----------------------------------------------------------------------------
(* C10 *)

\* The attachments of the list that rendered absent, in list order.
RECURSIVE AbsentFrom(_)
AbsentFrom(i) ==
  IF i > Len(Atts) THEN << >>
  ELSE IF RenderKind(i) = "absent" THEN <<Atts[i]>> \o AbsentFrom(i + 1)
  ELSE AbsentFrom(i + 1)

\* How many attachments of acct stand at or before index i of the list.
Position(acct, i) == Cardinality({j \in AttsOf(acct) : j <= i})

\* The scope identifiers of the deny statement that closes acct's role list.
NotActionsOf(acct) ==
  LET arp == AccountRolePoliciesOf(acct)
  IN Range(arp[Len(arp)].Statements[1].NotActions)

\* C10: an absent render never ends Policy(); on success the missing list
\* is the attachments that rendered absent, in insertion order, each has
\* the empty placeholder at its position in its account's list, and the
\* account's deny statement and service-role map hold only what the
\* attachments that rendered a document brought.
C10_AbsentIsNotAnError ==
  /\ PolicyFailed =>
       LET e == last.calls[Len(last.calls)]
       IN ~(e.fn = "renderTemplate" /\ e.out[1] = "absent")
  /\ PolicyOK =>
       /\ last.missing = AbsentFrom(1)
       /\ \A i \in 1..Len(Atts) :
            LET acct == Atts[i].account
                d == AccountPoliciesOf(acct)[Position(acct, i)]
            IN IF RenderKind(i) = "absent" THEN d = EmptyDoc ELSE d.origin = <<Atts[i]>>
       /\ \A acct \in DOMAIN Returned.AccountRolePolicies :
            /\ \A s \in NotActionsOf(acct) :
                 \E i \in AttsOf(acct) :
                   RenderKind(i) = "doc" /\ s \in Range(Scope[Atts[i].pt])
            /\ \A role \in DOMAIN Returned.ServiceRolePolicies[acct] :
                 \E i \in AttsOf(acct) :
                   RenderKind(i) = "doc" /\ ServiceRole[Atts[i].pt] = role
       /\ \A acct \in AccountNames :
            (AttsOf(acct) # {} /\ \A i \in AttsOf(acct) : RenderKind(i) = "absent")
              => /\ Len(AccountPoliciesOf(acct)) = Cardinality(AttsOf(acct)) + 1
                 /\ IsDenyEverything(AccountPoliciesOf(acct)[Len(AccountPoliciesOf(acct))])

\* A successful Policy() over an account whose scoped, service-role
\* declaring attachment rendered absent after another rendered a document.
C10_Witness ==
  /\ PolicyOK
  /\ Len(last.missing) = 1
  /\ \E i, j \in 1..Len(Atts) :
       /\ i < j
       /\ Atts[i].account = Atts[j].account
       /\ RenderKind(i) = "doc"
       /\ RenderKind(j) = "absent"
       /\ Scope[Atts[j].pt] # << >>
       /\ ServiceRole[Atts[j].pt] # Nil

\* A successful Policy() over an account whose only attachment rendered
\* absent: its list is [empty placeholder, deny-everything].
C10_OnlyAbsent ==
  /\ PolicyOK
  /\ \E acct \in AccountNames :
       /\ Cardinality(AttsOf(acct)) = 1
       /\ \A i \in AttsOf(acct) : RenderKind(i) = "absent"
       /\ AccountPoliciesOf(acct) = <<EmptyDoc, SynthDoc(DenyAll)>>

----------------------------------------------------------------------------
(* C11 *)

\* The logged renders that returned a document whose version is set and is
\* not the supported constant.
BadVersionRenders ==
  {j \in 1..Len(last.calls) :
     /\ last.calls[j].fn = "renderTemplate"
     /\ last.calls[j].out[1] = "doc"
     /\ last.calls[j].out[2] # ""
     /\ last.calls[j].out[2] # IAMPolicyVersion}

\* C11: Policy() returns the unsupported-version failure, and no aggregate,
\* exactly when an attachment it reached rendered a document whose version
\* is set and differs from the supported constant; a document with no
\* version or with the supported version never brings that failure.
C11_UnsupportedVersion ==
  PolicyReturned =>
    /\ (BadVersionRenders # {}) <=> (last.err = ErrVersion)
    /\ last.err = ErrVersion =>
         /\ last.policy = << >>
         /\ BadVersionRenders = {Len(last.calls)}

\* Policy() failed on the version of its second attachment's document,
\* after a first document with the supported version and one with none
\* were both accepted in other runs of the same list.
C11_Witness ==
  /\ PolicyFailed
  /\ last.err = ErrVersion
  /\ Len(last.calls) >= 2
  /\ last.calls[1].out \in {<<"doc", "">>, <<"doc", IAMPolicyVersion>>}

----------------------------------------------------------------------------
(* C12 *)

\* s is in strictly ascending order, as Go orders strings.
Ascending(s) == \A i \in 1..(Len(s) - 1) : StrLess(s[i], s[i + 1])

\* The negated-action lists of an aggregate's deny statements, per account.
NegatedActions(p) ==
  [acct \in DOMAIN p.AccountRolePolicies |->
     LET arp == p.AccountRolePolicies[acct]
     IN arp[Len(arp)].Statements[1].NotActions]

\* The successful results Policy() can return on c.
Successes(c) == {r \in PolicyResults(c) : r.err = Nil}

\* C12: with the container's list fixed, any two successful Policy() calls
\* whose renders returned the same give the same negated-action list for
\* every account, whatever order the map iterations ran in, and the list a
\* call returned is in ascending order.
C12_DeterministicDeny ==
  /\ Idle =>
       \A c \in Composed :
         \A r1, r2 \in Successes(c) :
           r1.calls = r2.calls
             => NegatedActions(r1.policy[1]) = NegatedActions(r2.policy[1])
  /\ PolicyOK =>
       \A acct \in DOMAIN Returned.AccountRolePolicies :
         Ascending(NegatedActions(Returned)[acct])

\* A successful Policy() whose deny statement for one account names three
\* scope identifiers, contributed by two attachments out of order.
C12_Witness ==
  /\ PolicyOK
  /\ \E acct \in DOMAIN Returned.AccountRolePolicies :
       /\ Len(NegatedActions(Returned)[acct]) = 3
       /\ Cardinality(AttsOf(acct)) = 2

----------------------------------------------------------------------------
(* C17 *)

\* The version of the document renderTemplate returned for attachment i.
RenderVersion(i) ==
  LET e == CHOOSE e \in Range(last.calls) : e.fn = "renderTemplate" /\ e.idx = i
  IN e.out[2]

\* The entries the attachments of acct from index i on bring to the
\* account's list: the rendered document, or the empty placeholder.
RECURSIVE EntriesFrom(_, _)
EntriesFrom(acct, i) ==
  IF i > Len(Atts) THEN << >>
  ELSE IF Atts[i].account # acct THEN EntriesFrom(acct, i + 1)
  ELSE IF RenderKind(i) = "doc"
  THEN <<RenderedDoc(Atts[i], RenderVersion(i))>> \o EntriesFrom(acct, i + 1)
  ELSE <<EmptyDoc>> \o EntriesFrom(acct, i + 1)

\* The accounts the container's attachments refer to.
AttachedAccounts == {Atts[i].account : i \in 1..Len(Atts)}

\* The scope identifiers declared by the templates of the attachments of
\* acct whose render produced a document.
ScopeOf(acct) ==
  UNION {Range(Scope[Atts[i].pt]) : i \in {j \in AttsOf(acct) : RenderKind(j) = "doc"}}

\* d is a synthesized document holding one deny statement.
IsSynthDeny(d) ==
  /\ d.Version = ""
  /\ Len(d.Statements) = 1
  /\ d.Statements[1].Effect = "Deny"

\* The container holds t1 then t2, both on account A, and both rendered.
TwoScopedOnA ==
  /\ Len(Atts) = 2
  /\ Atts[1].pt = "t1" /\ Atts[2].pt = "t2"
  /\ Atts[1].account = "A" /\ Atts[2].account = "A"
  /\ RenderKind(1) = "doc" /\ RenderKind(2) = "doc"

\* C17: on success the lists are kept for the accounts of the attachments;
\* an account's role list is one entry per attachment of the account, in
\* insertion order, then one synthesized deny document, and its policy list
\* is the role list, followed by the allow-everything document exactly when
\* the account's scope set is not empty. With t1 (scope s3:*, ec2:*) then
\* t2 (scope ec2:*, s3) on A, the role list is doc(t1), doc(t2), deny with
\* NotActions ec2:*, s3, s3:*.
C17_ListLayout ==
  PolicyOK =>
    /\ DOMAIN Returned.AccountPolicies = AttachedAccounts
    /\ DOMAIN Returned.AccountRolePolicies = AttachedAccounts
    /\ \A acct \in AttachedAccounts :
         LET ap == AccountPoliciesOf(acct)
             arp == AccountRolePoliciesOf(acct)
             entries == EntriesFrom(acct, 1)
         IN /\ Len(entries) = Cardinality(AttsOf(acct))
            /\ Len(arp) = Len(entries) + 1
            /\ SubSeq(arp, 1, Len(entries)) = entries
            /\ IsSynthDeny(arp[Len(arp)])
            /\ ap = IF ScopeOf(acct) # {}
                    THEN Append(arp, SynthDoc(AllowAll))
                    ELSE arp
    /\ TwoScopedOnA =>
         /\ AccountRolePoliciesOf("A") =
              << RenderedDoc(Atts[1], RenderVersion(1)),
                 RenderedDoc(Atts[2], RenderVersion(2)),
                 SynthDoc(IAMPolicyStatement("DenyUnknownServices", "Deny", << >>,
                                             <<EC2, S3, S3Star>>, <<Star>>)) >>
         /\ AccountPoliciesOf("A") =
              Append(AccountRolePoliciesOf("A"), SynthDoc(AllowAll))

\* A successful Policy() over t1 then t2 on account A, both rendered.
C17_Witness == PolicyOK /\ TwoScopedOnA

----------------------------------------------------------------------------
(* C18 *)

\* C18: on success the deny statement of an account names, each once, the
\* scope identifiers of the templates of the account's own attachments that
\* rendered a document, and nothing else; an account with none gets the
\* deny-everything statement.
C18_ScopeUnion ==
  PolicyOK =>
    \A acct \in AttachedAccounts :
      LET arp == AccountRolePoliciesOf(acct)
          stmt == arp[Len(arp)].Statements[1]
      IN IF ScopeOf(acct) = {}
         THEN stmt = DenyAll
         ELSE /\ stmt.Sid = "DenyUnknownServices"
              /\ stmt.Actions = << >>
              /\ Range(stmt.NotActions) = ScopeOf(acct)
              /\ Len(stmt.NotActions) = Cardinality(ScopeOf(acct))

\* A successful Policy() over two accounts: one whose scoped attachment
\* rendered a document, the other whose scoped attachment rendered absent.
C18_Witness ==
  /\ PolicyOK
  /\ Len(Atts) = 2
  /\ Atts[1].account # Atts[2].account
  /\ Scope[Atts[1].pt] # << >> /\ Scope[Atts[2].pt] # << >>
  /\ RenderKind(1) = "doc" /\ RenderKind(2) = "absent"

----------------------------------------------------------------------------
(* C19 *)

\* The renderTemplate calls of the last Policy(), in the order made.
Renders == SelectSeq(last.calls, LAMBDA e : e.fn = "renderTemplate")

\* The positions of the log that hold a call to compress.
CompressCalls == {j \in 1..Len(last.calls) : last.calls[j].fn = "compress"}

LoopErrors == {ErrRender, ErrVersion, ErrServiceRole, ErrAssumeRole}

\* C19: Policy() renders the attachments in insertion order, each at most
\* once, with the service-role renders of an attachment right after its
\* own render; a call that fails is the last call made, and its failure is
\* what Policy() returns; after a failure in the loop no later attachment
\* is rendered and compress is not called; compress is called once, and
\* only after every attachment went through.
C19_FirstErrorWins ==
  PolicyReturned =>
    /\ Len(Renders) <= Len(Atts)
    /\ \A j \in 1..Len(Renders) : Renders[j].idx = j
    /\ \A j \in 1..(Len(last.calls) - 1) :
         \/ last.calls[j + 1].fn = "compress"
         \/ /\ last.calls[j].fn # "compress"
            /\ last.calls[j].idx <= last.calls[j + 1].idx
            /\ last.calls[j].fn = last.calls[j + 1].fn
                 => last.calls[j].idx < last.calls[j + 1].idx
    /\ \A j \in 1..Len(last.calls) :
         FailureOf(last.calls[j]) # Nil
           => j = Len(last.calls) /\ last.err = FailureOf(last.calls[j])
    /\ last.err # Nil =>
         /\ Len(last.calls) >= 1
         /\ FailureOf(last.calls[Len(last.calls)]) = last.err
    /\ last.err \in LoopErrors =>
         /\ CompressCalls = {}
         /\ last.calls[Len(last.calls)].idx = Len(Renders)
    /\ CompressCalls \subseteq {Len(last.calls)}
    /\ CompressCalls # {} => Len(Renders) = Len(Atts)
    /\ last.err = Nil => CompressCalls # {}

\* Policy() failed on its first attachment while the container holds two.
C19_Witness ==
  /\ PolicyFailed
  /\ last.err \in LoopErrors
  /\ Len(Atts) = 2
  /\ Len(Renders) = 1

----------------------------------------------------------------------------
(* C20 *)

\* The attachments of acct that rendered a document and whose template
\* declares the service role named role.
RoleWriters(acct, role) ==
  {i \in AttsOf(acct) : RenderKind(i) = "doc" /\ ServiceRole[Atts[i].pt] = role}

Max(S) == CHOOSE x \in S : \A y \in S : y <= x

\* C20: on success every account of an attachment has a service-role
\* bucket; the bucket holds a role name exactly when an attachment of the
\* account that rendered a document has a template declaring that role,
\* and the pair stored is the one of the last such attachment.
C20_ServiceRoles ==
  PolicyOK =>
    LET srp == Returned.ServiceRolePolicies IN
    /\ DOMAIN srp = AttachedAccounts
    /\ \A acct \in AttachedAccounts :
         /\ DOMAIN srp[acct] =
              {ServiceRole[Atts[i].pt] : i \in {j \in AttsOf(acct) :
                 RenderKind(j) = "doc" /\ ServiceRole[Atts[j].pt] # Nil}}
         /\ \A role \in DOMAIN srp[acct] :
              srp[acct][role] = ServiceRolePolicy(Atts[Max(RoleWriters(acct, role))])

\* A successful Policy() over two different attachments of one account
\* whose templates declare the same service role, both rendered.
C20_Witness ==
  /\ PolicyOK
  /\ Len(Atts) = 2
  /\ Atts[1] # Atts[2]
  /\ Atts[1].account = Atts[2].account
  /\ ServiceRole[Atts[1].pt] # Nil
  /\ ServiceRole[Atts[1].pt] = ServiceRole[Atts[2].pt]
  /\ RenderKind(1) = "doc" /\ RenderKind(2) = "doc"

----------------------------------------------------------------------------
(* C13 .. C16: the locks *)

\* The entries of its plan whose lock goroutine p holds.
HeldEntries(p) ==
  IF proc[p].phase \in {"acquire", "parked", "drain"} THEN 1..(proc[p].i - 1)
  ELSE IF proc[p].phase = "release" THEN 1..proc[p].i
  ELSE {}

\* p holds mutex l in the mode given.
Holds(p, l, mode) ==
  \E j \in HeldEntries(p) : PlanOf(p)[j].lock = l /\ PlanOf(p)[j].mode = mode

HoldsAny(p, l) == Holds(p, l, "R") \/ Holds(p, l, "W")

\* p is in a lock call on mutex l that has not returned.
WaitsFor(p, l) == At(p, {"acquire", "parked", "drain"}) /\ EntryOf(p).lock = l

\* p has announced itself as a writer of l and waits for its readers.
Announced(p, l) == At(p, {"drain"}) /\ EntryOf(p).lock = l

\* p is inside its critical section: it holds every lock of its plan.
InCS(p) == proc[p].phase = "release" /\ proc[p].i = Len(PlanOf(p))

\* p is the operation op, in a call on some container.
Runs(p, op) == proc[p].op = op

\* The registry of the container p's call is on.
RegistryOf(p) == amper[proc[p].c]

\* p's next step cannot be taken as the locks stand.
Blocked(p) ==
  \/ At(p, {"parked"})
  \/ At(p, {"acquire"}) /\ EntryOf(p).mode = "W" /\ rw[EntryOf(p).lock].writer
  \/ At(p, {"drain"}) /\ rw[EntryOf(p).lock].readers > 0

\* The goroutines that hold p up: the writers of the mutex p is parked on
\* or wants to announce itself on, the readers p waits to see leave.
Blockers(p) ==
  IF ~Blocked(p) THEN {}
  ELSE LET l == EntryOf(p).lock IN
       IF At(p, {"drain"})
       THEN {q \in Procs \ {p} : Holds(q, l, "R")}
       ELSE {q \in Procs \ {p} : Holds(q, l, "W") \/ Announced(q, l)}

\* Each mutex counts the readers that hold it, and has a writer exactly
\* when a goroutine holds it exclusively or has announced itself.
LockAccounting ==
  \A l \in Locks :
    /\ rw[l].readers = Cardinality({p \in Procs : Holds(p, l, "R")})
    /\ rw[l].writer = (\E p \in Procs : Holds(p, l, "W") \/ Announced(p, l))

\* C13: while an AddPolicyTemplate is in its critical section, no other
\* call on a container of the same registry is in its critical section or
\* holds any lock; while an AddAttachment on a container is in its critical
\* section, no other AddAttachment and no Policy() on that container is in
\* its critical section or holds the container's lock.
C13_Exclusion ==
  \A p, q \in Procs :
    (p # q /\ InCS(p) /\ proc[q].phase # "idle") =>
      /\ (Runs(p, "AddPolicyTemplate") /\ RegistryOf(q) = RegistryOf(p))
           => ~InCS(q) /\ HeldEntries(q) = {}
      /\ (Runs(p, "AddAttachment") /\ proc[q].c = proc[p].c)
           => ~InCS(q) /\ ~HoldsAny(q, proc[p].c)

\* An AddPolicyTemplate is in its critical section while an AddAttachment
\* and a Policy() of the same registry are held at the registry lock.
C13_Witness ==
  \E p, q, r \in Procs :
    /\ InCS(p) /\ Runs(p, "AddPolicyTemplate")
    /\ Runs(q, "AddAttachment") /\ RegistryOf(q) = RegistryOf(p) /\ Blocked(q)
    /\ Runs(r, "Policy") /\ RegistryOf(r) = RegistryOf(p) /\ Blocked(r)

\* C14: an AddAttachment or Policy() that holds or asks for its container's
\* lock holds the registry's lock, and in its critical section holds both;
\* an AddPolicyTemplate touches the registry's lock only; and whenever some
\* call is under way, some call under way can take its next step.
C14_OrderAndNoDeadlock ==
  /\ \A p \in Procs :
       proc[p].phase # "idle" =>
         LET c == proc[p].c
             k == amper[c]
         IN IF Runs(p, "AddPolicyTemplate")
            THEN /\ \A x \in Containers : ~HoldsAny(p, x) /\ ~WaitsFor(p, x)
                 /\ InCS(p) => Holds(p, k, "W")
            ELSE /\ (HoldsAny(p, c) \/ WaitsFor(p, c)) => Holds(p, k, "R")
                 /\ InCS(p) => Holds(p, k, "R") /\ HoldsAny(p, c)
  /\ (\E p \in Procs : proc[p].phase # "idle")
       => \E p \in Procs : proc[p].phase # "idle" /\ ~Blocked(p)

\* An AddAttachment waits for a Policy() to leave its container while an
\* AddPolicyTemplate waits for both to leave the registry.
C14_Witness ==
  \E p, q, r \in Procs :
    /\ Runs(p, "AddAttachment") /\ Announced(p, proc[p].c)
    /\ Runs(q, "Policy") /\ InCS(q) /\ proc[q].c = proc[p].c
    /\ Runs(r, "AddPolicyTemplate") /\ Announced(r, RegistryOf(p))

\* C15: with a fair scheduler and fair mutexes, every call a goroutine has
\* started returns, and the mutexes are held by the calls under way only:
\* a call that returned has released what it took.
C15_EveryCallReturns ==
  /\ \A p \in Procs : (proc[p].phase # "idle") ~> (proc[p].phase = "idle")
  /\ []LockAccounting

\* An AddPolicyTemplate is in its critical section, a second one waits to
\* announce itself, and a reader is parked at the registry.
C15_Witness ==
  \E p, q, r \in Procs :
    /\ InCS(p) /\ Runs(p, "AddPolicyTemplate")
    /\ Runs(q, "AddPolicyTemplate") /\ At(q, {"acquire"})
    /\ RegistryOf(q) = RegistryOf(p)
    /\ At(r, {"parked"}) /\ EntryOf(r).lock = RegistryOf(p)

\* p and q are AddAttachment or Policy() calls on two different containers
\* of one registry.
OnSiblings(p, q) ==
  /\ p # q
  /\ proc[p].op \in {"AddAttachment", "Policy"}
  /\ proc[q].op \in {"AddAttachment", "Policy"}
  /\ proc[p].c # proc[q].c
  /\ RegistryOf(p) = RegistryOf(q)

\* C16: an AddAttachment or Policy() in its critical section never holds
\* up an AddAttachment or Policy() on another container of the registry,
\* and when two such calls are in their critical sections together the
\* registry's lock is held by no writer and has both among its readers.
C16_SiblingsRunTogether ==
  \A p, q \in Procs :
    (OnSiblings(p, q) /\ InCS(p)) =>
      /\ p \notin Blockers(q)
      /\ InCS(q) =>
           /\ \A r \in Procs : ~Holds(r, RegistryOf(p), "W")
           /\ rw[RegistryOf(p)].readers >= 2
           /\ Holds(p, RegistryOf(p), "R") /\ Holds(q, RegistryOf(p), "R")

\* Two AddAttachment calls on two containers of one registry are in their
\* critical sections together, the registry held by these two readers.
C16_Witness ==
  \E p, q \in Procs :
    /\ OnSiblings(p, q)
    /\ Runs(p, "AddAttachment") /\ Runs(q, "AddAttachment")
    /\ InCS(p) /\ InCS(q)
    /\ rw[RegistryOf(p)] = [writer |-> FALSE, readers |-> 2]

====
